---- MODULE Spec2Model ----
(***************************************************************************)
(* Model of pyprocdev's ProcDev class (src/src/pyprocdev/_pyprocdev.py):   *)
(* the line-by-line parse of a /proc/devices listing into two forward      *)
(* tables, and the two query methods get_driver and get_majors.            *)
(*                                                                         *)
(* A text line is a sequence of one-character strings, so that rstrip,     *)
(* split and int are computed on the characters as Python computes them.   *)
(* A dict is a function with a finite domain. The input stream yields any  *)
(* number of lines of LineSet, in any order, and then ends. Spec has the   *)
(* queries called one after the other; SpecThreads has two threads that    *)
(* each call get_majors, step by step.                                     *)
(***************************************************************************)
EXTENDS Integers, Sequences, FiniteSets, TLC

(***************************************************************************)
(* Bounds of the model.                                                    *)
(***************************************************************************)
\* the number of times a reverse table is built for one device type
MaxBuilds == 2

(***************************************************************************)
(* Text: characters, str.rstrip, str.split, int.                           *)
(***************************************************************************)
\* the whitespace characters that occur in the lines of LineSet
Whitespace == {" ", "\t", "\n"}

Digits == <<"0", "1", "2", "3", "4", "5", "6", "7", "8", "9">>

IsDigit(c) == \E i \in 1..Len(Digits) : Digits[i] = c

DigitValue(c) == (CHOOSE i \in 1..Len(Digits) : Digits[i] = c) - 1

\* a variant that trims the whitespace at both ends, as str.strip() does
RECURSIVE rstrip_bothEnds(_)
rstrip_bothEnds(s) ==
    IF s = <<>> THEN <<>>
    ELSE IF s[Len(s)] \in Whitespace
         THEN rstrip_bothEnds(SubSeq(s, 1, Len(s) - 1))
    ELSE IF Head(s) \in Whitespace THEN rstrip_bothEnds(Tail(s))
    ELSE s

\* str.rstrip(): the line without its trailing whitespace
RECURSIVE rstrip(_)
rstrip(s) ==
    IF s = <<>> THEN <<>>
    ELSE IF s[Len(s)] \in Whitespace THEN rstrip(SubSeq(s, 1, Len(s) - 1))
    ELSE s

\* str.split(): the maximal runs of non-whitespace characters, in order
RECURSIVE SplitFrom(_, _, _)
SplitFrom(s, cur, acc) ==
    IF s = <<>> THEN (IF cur = <<>> THEN acc ELSE Append(acc, cur))
    ELSE IF Head(s) \in Whitespace
         THEN SplitFrom(Tail(s), <<>>, IF cur = <<>> THEN acc ELSE Append(acc, cur))
         ELSE SplitFrom(Tail(s), Append(cur, Head(s)), acc)

split(s) == SplitFrom(s, <<>>, <<>>)

\* the value of a non-empty run of decimal digits
RECURSIVE DecimalValue(_)
DecimalValue(ds) ==
    IF ds = <<>> THEN 0
    ELSE 10 * DecimalValue(SubSeq(ds, 1, Len(ds) - 1)) + DigitValue(ds[Len(ds)])

AllDigits(ds) == ds # <<>> /\ \A i \in 1..Len(ds) : IsDigit(ds[i])

\* a variant that, like C's atoi, yields 0 for a token that is no number
int_atoi(tok) ==
    IF AllDigits(tok) THEN [ok |-> TRUE, value |-> DecimalValue(tok)]
    ELSE [ok |-> TRUE, value |-> 0]

\* int(tok): an optional sign followed by decimal digits, else ValueError
int(tok) ==
    IF tok # <<>> /\ Head(tok) \in {"+", "-"}
    THEN IF AllDigits(Tail(tok))
         THEN [ok |-> TRUE,
               value |-> IF Head(tok) = "-" THEN 0 - DecimalValue(Tail(tok))
                         ELSE DecimalValue(Tail(tok))]
         ELSE [ok |-> FALSE, value |-> 0]
    ELSE IF AllDigits(tok)
         THEN [ok |-> TRUE, value |-> DecimalValue(tok)]
         ELSE [ok |-> FALSE, value |-> 0]

(***************************************************************************)
(* The literals of the parser and the lines the input stream may yield.    *)
(***************************************************************************)
CharacterHeader ==
    <<"C", "h", "a", "r", "a", "c", "t", "e", "r", " ",
      "d", "e", "v", "i", "c", "e", "s", ":">>

BlockHeader ==
    <<"B", "l", "o", "c", "k", " ", "d", "e", "v", "i", "c", "e", "s", ":">>

\* the device types; NOTYPE is the parser's "no section" value
DeviceTypes == {"CHARACTER", "BLOCK", "NOTYPE"}

LineSet ==
    { <<>>,                                   \* blank
      <<" ", "\t">>,                          \* whitespace only
      CharacterHeader,
      BlockHeader,
      CharacterHeader \o <<" ", "\n">>,       \* header, trailing whitespace
      <<" ">> \o BlockHeader,                 \* header, leading whitespace
      <<"c">> \o Tail(CharacterHeader),       \* header, other letter case
      SubSeq(BlockHeader, 1, Len(BlockHeader) - 1),   \* prefix of a header
      BlockHeader \o <<" ", "x">>,            \* extension of a header
      <<"1", " ", "a">>,
      <<"1", " ", "b">>,
      <<"3", " ", "a", "\n">>,
      <<"-", "1", " ", "a">>,                 \* signed major
      <<"x", " ", "a">>,                      \* non-numeric major
      <<"5">>,                                \* one token
      <<"1", " ", "a", " ", "b">> }           \* three tokens

(***************************************************************************)
(* dict: a function with a finite domain. The order in which a dict yields *)
(* its items is not modelled: the only code that iterates over a dict,     *)
(* _build_reverse_table, passes the items to sorted, see sorted below.     *)
(***************************************************************************)
EmptyDict == [k \in {} |-> 0]

DictHas(d, k) == k \in DOMAIN d

\* a variant that drops the other entries of the dict
DictSet_replaces(d, k, v) == [x \in {k} |-> v]

\* d[k] = v: insert, or overwrite
DictSet(d, k, v) == [x \in DOMAIN d \cup {k} |-> IF x = k THEN v ELSE d[x]]

\* d.items(), as a list in the dict's iteration order
items(d) ==
    CHOOSE s \in [1..Cardinality(DOMAIN d) -> { <<k, d[k]>> : k \in DOMAIN d }] :
        \A k \in DOMAIN d : \E i \in DOMAIN s : s[i] = <<k, d[k]>>

(***************************************************************************)
(* Exceptions and results.                                                 *)
(***************************************************************************)
NoError == [exc |-> "", fmt |-> "", line |-> <<>>, section |-> ""]

\* ProcDevParsingError("Unexpected format for line %s" % line)
FormatError(line) ==
    [exc |-> "ProcDevParsingError", fmt |-> "Unexpected format for line %s",
     line |-> line, section |-> ""]

\* ProcDevParsingError("Parsing data for unknown device type %s." % parsing)
UnknownTypeError(section) ==
    [exc |-> "ProcDevParsingError",
     fmt |-> "Parsing data for unknown device type %s.",
     line |-> <<>>, section |-> section]

\* int(major) raised: the built-in ValueError, which nothing catches
IntError == [exc |-> "ValueError", fmt |-> "", line |-> <<>>, section |-> ""]

\* the outcome of a query call: a returned value or a raised exception
NoResult == [kind |-> "", exc |-> "", vtype |-> "", vstr |-> <<>>, vset |-> {}]

Raise(exc) == [NoResult EXCEPT !.kind = "raise", !.exc = exc]

ReturnNone == [NoResult EXCEPT !.kind = "return", !.vtype = "NoneType"]

ReturnStr(s) == [NoResult EXCEPT !.kind = "return", !.vtype = "str", !.vstr = s]

ReturnSet(S) ==
    [NoResult EXCEPT !.kind = "return", !.vtype = "frozenset", !.vset = S]

(***************************************************************************)
(* State.                                                                  *)
(***************************************************************************)
VARIABLES
    python,      \* the interpreter's major version, 2 or 3
    pc,          \* "parsing", "constructed" (__init__ returned) or "raised"
    parsing,     \* _parse_file's current section
    tables,      \* self._tables: device type -> [left, right]
    error,       \* the exception that left __init__, or NoError
    raw,         \* the line the stream yielded last
    before,      \* the current section when that line was yielded
    headed,      \* whether a header came after the last blank line
    was_headed,  \* the same, when the line in raw was yielded
    failed,      \* whether the loop body has raised on some line
    last_row,    \* <<section, major>> -> driver of the last row stored
    last_call,   \* the latest query call and its arguments
    result,      \* the outcome of the latest query call
    builds,      \* device type -> number of _build_reverse_table calls
    remembered,  \* one earlier get_majors call and its outcome
    threads      \* thread -> its get_majors call and how far it has got

parse_vars ==
    <<parsing, error, raw, before, headed, was_headed, failed, last_row>>

query_vars == <<last_call, result, builds, remembered>>

vars == <<python, pc, tables, parse_vars, query_vars, threads>>

\* the keys of self._tables
TableKeys == {"CHARACTER", "BLOCK"}

\* right is None until a reverse table is stored in it
NoneRight == [isNone |-> TRUE, dict |-> EmptyDict]

\* _TablePairs(left, right)
TablePairs(left, right) == [left |-> left, right |-> right]

NoCall == [op |-> "", device_type |-> "", major_number |-> 0, driver |-> <<>>]

NothingRemembered == [set |-> FALSE, call |-> NoCall, result |-> NoResult]

\* the threads that call get_majors on the one instance
ThreadIds == {1, 2}

\* a thread that has not called: at "idle". A call goes through "called",
\* "read" (the memo was read), "built" (the value to store is in hand),
\* "stored" and "done"
IdleThread ==
    [at |-> "idle", style |-> "", device_type |-> "", driver |-> <<>>,
     value |-> NoneRight, result |-> NoResult]

(***************************************************************************)
(* _parse_file: the body of the loop, for one line of the stream.          *)
(***************************************************************************)
\* a variant that takes the first two of two or more tokens
Unpacks_atLeastTwo(tokens) == Len(tokens) >= 2

\* (major, device) = line.split() succeeds
Unpacks(tokens) == Len(tokens) = 2

\* self._tables[parsing] succeeds
HasTable(tabs, section) == section \in DOMAIN tabs

\* a variant in which a blank line does not end the section
SectionAfter_noReset(line, section) ==
    IF line = CharacterHeader THEN "CHARACTER"
    ELSE IF line = BlockHeader THEN "BLOCK"
    ELSE section

\* a variant in which either header opens the CHARACTER section
SectionAfter_bothCharacter(line, section) ==
    IF line = <<>> THEN "NOTYPE"
    ELSE IF line \in {CharacterHeader, BlockHeader} THEN "CHARACTER"
    ELSE section

\* the section after a blank line or a header, line being the trimmed line
SectionAfter(line, section) ==
    IF line = <<>> THEN "NOTYPE"
    ELSE IF line = CharacterHeader THEN "CHARACTER"
    ELSE IF line = BlockHeader THEN "BLOCK"
    ELSE section

\* a variant that parses the major before it looks the section up
ParseStep_intFirst(line_in, section, tabs) ==
    LET line == rstrip(line_in)
        tokens == split(line)
        same == [parsing |-> section, tables |-> tabs, error |-> NoError]
    IN  IF line \in {<<>>, CharacterHeader, BlockHeader}
        THEN [same EXCEPT !.parsing = SectionAfter(line, section)]
        ELSE IF ~Unpacks(tokens) THEN [same EXCEPT !.error = FormatError(line)]
        ELSE IF ~int(tokens[1]).ok THEN [same EXCEPT !.error = IntError]
        ELSE IF ~HasTable(tabs, section)
             THEN [same EXCEPT !.error = UnknownTypeError(section)]
        ELSE [same EXCEPT
                !.tables[section].left =
                    DictSet(@, int(tokens[1]).value, tokens[2])]

\* what the loop body does with one line: the next section, the next
\* tables, and the exception it raises (NoError when it raises none)
ParseStep(line_in, section, tabs) ==
    LET line == rstrip(line_in)
        tokens == split(line)
        same == [parsing |-> section, tables |-> tabs, error |-> NoError]
    IN  IF line \in {<<>>, CharacterHeader, BlockHeader}
        THEN [same EXCEPT !.parsing = SectionAfter(line, section)]
        ELSE IF ~Unpacks(tokens) THEN [same EXCEPT !.error = FormatError(line)]
        ELSE IF ~HasTable(tabs, section)
             THEN [same EXCEPT !.error = UnknownTypeError(section)]
        ELSE IF ~int(tokens[1]).ok THEN [same EXCEPT !.error = IntError]
        ELSE [same EXCEPT
                !.tables[section].left =
                    DictSet(@, int(tokens[1]).value, tokens[2])]

\* a variant that skips a failing line and goes on with the next one
Propagate_skipLine(e) == "parsing"

\* where control is after the loop body: an exception raised in
\* _parse_file is caught neither there nor in __init__
Propagate(e) == IF e = NoError THEN "parsing" ELSE "raised"

\* the line is neither blank nor a header: the loop body takes it as a row
IsRow(line_in) ==
    rstrip(line_in) \notin {<<>>, CharacterHeader, BlockHeader}

\* the row that the loop body stored for this line, if it stored one
RowStored(line_in, section, e) ==
    IF IsRow(line_in) /\ e = NoError
    THEN LET tokens == split(rstrip(line_in))
         IN  [k \in {<<section, int(tokens[1]).value>>} |-> tokens[2]]
    ELSE EmptyDict

\* whether a header has come after the last blank line, once line_in is read
HeadedAfter(line_in, h) ==
    IF rstrip(line_in) = <<>> THEN FALSE
    ELSE IF rstrip(line_in) \in {CharacterHeader, BlockHeader} THEN TRUE
    ELSE h

Init ==
    /\ python \in {2, 3}
    /\ pc = "parsing"
    /\ parsing = "NOTYPE"
    /\ tables = [t \in TableKeys |-> TablePairs(EmptyDict, NoneRight)]
    /\ error = NoError
    /\ raw = <<>>
    /\ before = "NOTYPE"
    /\ headed = FALSE
    /\ was_headed = FALSE
    /\ failed = FALSE
    /\ last_row = EmptyDict
    /\ last_call = NoCall
    /\ result = NoResult
    /\ builds = [t \in TableKeys |-> 0]
    /\ remembered = NothingRemembered
    /\ threads = [i \in ThreadIds |-> IdleThread]

\* for line in istream: one iteration
ParseLine ==
    /\ pc = "parsing"
    /\ \E line_in \in LineSet :
          LET step == ParseStep(line_in, parsing, tables)
              row == RowStored(line_in, parsing, step.error)
          IN  /\ raw' = line_in
              /\ before' = parsing
              /\ headed' = HeadedAfter(line_in, headed)
              /\ was_headed' = headed
              /\ parsing' = step.parsing
              /\ tables' = step.tables
              /\ error' = step.error
              /\ failed' = (failed \/ step.error # NoError)
              /\ last_row' = [k \in DOMAIN last_row \cup DOMAIN row |->
                                IF k \in DOMAIN row THEN row[k] ELSE last_row[k]]
              /\ pc' = Propagate(step.error)
    /\ UNCHANGED <<python, query_vars, threads>>

\* the stream is exhausted: _parse_file returns, then __init__
EndOfFile ==
    /\ pc = "parsing"
    /\ pc' = "constructed"
    /\ parsing' = "NOTYPE"
    /\ raw' = <<>>
    /\ before' = "NOTYPE"
    /\ headed' = FALSE
    /\ was_headed' = FALSE
    /\ UNCHANGED <<python, tables, error, failed, last_row, query_vars, threads>>

(***************************************************************************)
(* Calling a method: binding the arguments, resolving the names.           *)
(***************************************************************************)
\* the parameter lists of the two query methods, as their def lines give them
get_driver_params == <<"device_type", "major_number">>

get_majors_params == <<"device_type", "driver">>

\* the names bound at module level
ModuleNames ==
    {"itertools", "ProcDevParsingError", "ProcDevValueError", "DeviceTypes",
     "_TablePairs", "ProcDev"}

\* the two ways to call a method f of the instance pd with arguments a, b:
\* pd.f(a, b) and ProcDev.f(a, b)
CallStyles == {"method", "function"}

Instance == "<ProcDev instance>"

\* the positional arguments the function object receives
Positional(style, args) ==
    IF style = "method" THEN <<Instance>> \o args ELSE args

Names(params) == { params[i] : i \in 1..Len(params) }

\* the value bound to the parameter called name
Argument(params, positional, name) ==
    positional[CHOOSE i \in 1..Len(params) : params[i] = name]

\* the exception raised before the first statement of the body can use
\* self, or "" when the call gets that far: Python 2 refuses to call an
\* unbound method on something that is not an instance; the number of
\* arguments must be the number of parameters; the name self must be a
\* parameter or a module-level name
CallFailure(style, params, positional) ==
    IF style = "function" /\ python = 2 THEN "TypeError"
    ELSE IF Len(positional) # Len(params) THEN "TypeError"
    ELSE IF "self" \notin Names(params) \cup ModuleNames THEN "NameError"
    ELSE ""

(***************************************************************************)
(* get_driver.                                                             *)
(***************************************************************************)
get_driver(style, args) ==
    LET positional == Positional(style, args)
        failure == CallFailure(style, get_driver_params, positional)
        device_type == Argument(get_driver_params, positional, "device_type")
        major_number == Argument(get_driver_params, positional, "major_number")
    IN  IF failure # "" THEN Raise(failure)
        ELSE IF device_type \notin DOMAIN tables THEN Raise("ProcDevValueError")
        ELSE IF DictHas(tables[device_type].left, major_number)
             THEN ReturnStr(tables[device_type].left[major_number])
        ELSE ReturnNone

(***************************************************************************)
(* _build_reverse_table.                                                   *)
(***************************************************************************)
\* sorted(list, lambda x: x[1]): Python 3's sorted takes one positional
\* argument and raises TypeError. Python 2 takes the lambda as the cmp
\* function and raises TypeError when it first calls it with two items,
\* which it does unless the list has fewer than two items.
sorted(list) ==
    IF python = 3 THEN [ok |-> FALSE, list |-> <<>>]
    ELSE IF Len(list) < 2 THEN [ok |-> TRUE, list |-> list]
    ELSE [ok |-> FALSE, list |-> <<>>]

\* itertools.groupby(list, lambda x: x[1]): the maximal runs of adjacent
\* items with the same x[1], as <<key, run>> pairs
RECURSIVE groupby(_)
groupby(list) ==
    IF list = <<>> THEN <<>>
    ELSE LET rest == groupby(Tail(list))
         IN  IF rest # <<>> /\ rest[1][1] = Head(list)[2]
             THEN <<<<rest[1][1], <<Head(list)>> \o rest[1][2]>>>> \o Tail(rest)
             ELSE <<<<Head(list)[2], <<Head(list)>>>>>> \o rest

\* dict((key, frozenset(x[0] for x in pairs)) for key, pairs in groups)
RECURSIVE DictOfGroups(_)
DictOfGroups(groups) ==
    IF groups = <<>> THEN EmptyDict
    ELSE LET g == groups[Len(groups)]
         IN  DictSet(DictOfGroups(SubSeq(groups, 1, Len(groups) - 1)),
                     g[1], { g[2][i][1] : i \in 1..Len(g[2]) })

_build_reverse_table(table) ==
    LET sorted_items == sorted(items(table))
    IN  IF ~sorted_items.ok THEN [ok |-> FALSE, exc |-> "TypeError", dict |-> EmptyDict]
        ELSE [ok |-> TRUE, exc |-> "",
              dict |-> DictOfGroups(groupby(sorted_items.list))]

(***************************************************************************)
(* get_majors.                                                             *)
(***************************************************************************)
\* the truth value of table_pair.right: None and the empty dict are false
Truthy(right) == ~right.isNone /\ DOMAIN right.dict # {}

\* the grouping of a forward table by driver name
GroupsOf(left) ==
    [d \in { left[m] : m \in DOMAIN left } |->
        { m \in DOMAIN left : left[m] = d }]

\* a variant that takes self and groups the forward table by popping its
\* items off it, which leaves the forward table empty
get_majors_consumesLeft(style, args) ==
    LET device_type == args[1]
        driver == args[2]
        groups == GroupsOf(tables[device_type].left)
    IN  IF device_type \notin DOMAIN tables
        THEN [result |-> Raise("ProcDevValueError"), tables |-> tables,
              builds |-> {}]
        ELSE [result |-> IF DictHas(groups, driver)
                         THEN ReturnSet(groups[driver]) ELSE ReturnNone,
              tables |-> [tables EXCEPT ![device_type] =
                            TablePairs(EmptyDict,
                                       [isNone |-> FALSE, dict |-> groups])],
              builds |-> {device_type}]

\* a variant that takes self and, on any call, stores the reverse table of
\* every device type that has none
get_majors_buildsAll(style, args) ==
    LET device_type == args[1]
        driver == args[2]
        groups == GroupsOf(tables[device_type].left)
    IN  IF device_type \notin DOMAIN tables
        THEN [result |-> Raise("ProcDevValueError"), tables |-> tables,
              builds |-> {}]
        ELSE [result |-> IF DictHas(groups, driver)
                         THEN ReturnSet(groups[driver]) ELSE ReturnNone,
              tables |-> [t \in DOMAIN tables |->
                            IF tables[t].right.isNone
                            THEN TablePairs(tables[t].left,
                                            [isNone |-> FALSE,
                                             dict |-> GroupsOf(tables[t].left)])
                            ELSE tables[t]],
              builds |-> { t \in DOMAIN tables : tables[t].right.isNone }]

\* the outcome of the call, the tables after it, and whether it called
\* _build_reverse_table
get_majors(style, args) ==
    LET positional == Positional(style, args)
        failure == CallFailure(style, get_majors_params, positional)
        device_type == Argument(get_majors_params, positional, "device_type")
        driver == Argument(get_majors_params, positional, "driver")
        table_pair == tables[device_type]
        built == _build_reverse_table(table_pair.left)
        right == IF Truthy(table_pair.right) THEN table_pair.right
                 ELSE [isNone |-> FALSE, dict |-> built.dict]
        unchanged == [result |-> NoResult, tables |-> tables, builds |-> {}]
    IN  IF failure # "" THEN [unchanged EXCEPT !.result = Raise(failure)]
        ELSE IF device_type \notin DOMAIN tables
             THEN [unchanged EXCEPT !.result = Raise("ProcDevValueError")]
        ELSE IF ~Truthy(table_pair.right) /\ ~built.ok
             THEN [result |-> Raise(built.exc), tables |-> tables,
                   builds |-> {device_type}]
        ELSE [result |-> IF DictHas(right.dict, driver)
                         THEN ReturnSet(right.dict[driver]) ELSE ReturnNone,
              tables |-> [tables EXCEPT ![device_type].right = right],
              builds |-> IF Truthy(table_pair.right) THEN {} ELSE {device_type}]

(***************************************************************************)
(* The query calls a caller makes on a constructed instance.               *)
(***************************************************************************)
MajorArgs == {1, 999999}

DriverArgs == { <<"a">>, <<"z">> }

GetDriver ==
    /\ pc = "constructed"
    /\ \E style \in CallStyles, device_type \in DeviceTypes,
          major_number \in MajorArgs :
          /\ result' = get_driver(style, <<device_type, major_number>>)
          /\ last_call' = [NoCall EXCEPT !.op = "get_driver",
                                         !.device_type = device_type,
                                         !.major_number = major_number]
    /\ UNCHANGED <<python, pc, tables, parse_vars, builds, remembered, threads>>

GetMajors ==
    /\ pc = "constructed"
    /\ \E style \in CallStyles, device_type \in DeviceTypes,
          driver \in DriverArgs, remember \in BOOLEAN :
          LET call == get_majors(style, <<device_type, driver>>)
              this == [NoCall EXCEPT !.op = "get_majors",
                                     !.device_type = device_type,
                                     !.driver = driver]
          IN  /\ \A t \in call.builds : builds[t] < MaxBuilds
              /\ result' = call.result
              /\ tables' = call.tables
              /\ builds' = [t \in TableKeys |->
                              IF t \in call.builds THEN builds[t] + 1
                              ELSE builds[t]]
              /\ last_call' = this
              /\ remembered' =
                    IF remember /\ ~remembered.set
                    THEN [set |-> TRUE, call |-> this, result |-> call.result]
                    ELSE remembered
    /\ UNCHANGED <<python, pc, parse_vars, threads>>

Next == ParseLine \/ EndOfFile \/ GetDriver \/ GetMajors

Spec == Init /\ [][Next]_vars

(***************************************************************************)
(* get_majors called from two threads: each call is taken one step at a    *)
(* time, and the steps of the two calls interleave in any order.           *)
(***************************************************************************)
\* a thread calls get_majors on the instance
StartCall ==
    /\ pc = "constructed"
    /\ \E i \in ThreadIds, style \in CallStyles, device_type \in TableKeys,
          driver \in DriverArgs :
          /\ threads[i].at = "idle"
          /\ threads' = [threads EXCEPT ![i] =
                            [IdleThread EXCEPT !.at = "called",
                                               !.style = style,
                                               !.device_type = device_type,
                                               !.driver = driver]]
    /\ UNCHANGED <<python, pc, tables, parse_vars, query_vars>>

\* the next step of a thread's call: the thread after it, the tables
\* after it and the device types it has built a reverse table for.
\* "called": the arguments are bound and self._tables[device_type] is
\* looked up. "bound": table_pair.right is read and tested. "read":
\* _build_reverse_table runs. "built": the value is assigned to
\* table_pair.right. "stored": table_pair.right is read again and asked
\* for the driver.
get_majors_step(th) ==
    LET positional == Positional(th.style, <<th.device_type, th.driver>>)
        failure == CallFailure(th.style, get_majors_params, positional)
        device_type == Argument(get_majors_params, positional, "device_type")
        driver == Argument(get_majors_params, positional, "driver")
        table_pair == tables[device_type]
        built == _build_reverse_table(table_pair.left)
        same == [thread |-> th, tables |-> tables, builds |-> {}]
        done(r) == [th EXCEPT !.at = "done", !.result = r]
    IN  IF th.at = "called"
        THEN IF failure # "" THEN [same EXCEPT !.thread = done(Raise(failure))]
             ELSE IF device_type \notin DOMAIN tables
                  THEN [same EXCEPT !.thread = done(Raise("ProcDevValueError"))]
             ELSE [same EXCEPT !.thread.at = "bound"]
        ELSE IF th.at = "bound"
        THEN IF Truthy(table_pair.right)
             THEN [same EXCEPT !.thread.at = "built",
                               !.thread.value = table_pair.right]
             ELSE [same EXCEPT !.thread.at = "read"]
        ELSE IF th.at = "read"
        THEN IF ~built.ok
             THEN [same EXCEPT !.thread = done(Raise(built.exc)),
                               !.builds = {device_type}]
             ELSE [same EXCEPT !.thread.at = "built",
                               !.thread.value =
                                   [isNone |-> FALSE, dict |-> built.dict],
                               !.builds = {device_type}]
        ELSE IF th.at = "built"
        THEN [same EXCEPT !.thread.at = "stored",
                          !.tables[device_type].right = th.value]
        ELSE [same EXCEPT !.thread =
                 done(IF DictHas(table_pair.right.dict, driver)
                      THEN ReturnSet(table_pair.right.dict[driver])
                      ELSE ReturnNone)]

\* a thread takes the next step of its call
ThreadStep ==
    /\ pc = "constructed"
    /\ \E i \in ThreadIds :
          LET step == get_majors_step(threads[i])
          IN  /\ threads[i].at \notin {"idle", "done"}
              /\ threads' = [threads EXCEPT ![i] = step.thread]
              /\ tables' = step.tables
              /\ builds' = [t \in TableKeys |->
                              IF t \in step.builds THEN builds[t] + 1
                              ELSE builds[t]]
    /\ UNCHANGED <<python, pc, parse_vars, last_call, result, remembered>>

NextThreads == ParseLine \/ EndOfFile \/ StartCall \/ ThreadStep

SpecThreads == Init /\ [][NextThreads]_vars

(***************************************************************************)
(* Properties of the parse.                                                *)
(***************************************************************************)
\* the tokens of the line the stream yielded last
RawTokens == split(rstrip(raw))

\* C3: a two-token data row processed while the current section is NOTYPE,
\* that is, when no header has come since the start or since the last blank
\* line, makes construction fail with a ProcDevParsingError.
C3_RowOutsideSectionFails ==
    (IsRow(raw) /\ Len(RawTokens) = 2 /\ (before = "NOTYPE" \/ ~was_headed))
        => (pc = "raised" /\ error.exc = "ProcDevParsingError")

\* a row right after a blank line that came after a header and its rows
C3_Witness ==
    /\ IsRow(raw) /\ Len(RawTokens) = 2
    /\ before = "NOTYPE" /\ ~was_headed
    /\ \E t \in TableKeys : DOMAIN tables[t].left # {}
    /\ pc = "raised"

\* C4: in a recognized section, a line that is neither blank nor a header
\* and does not split into exactly two tokens makes construction fail with
\* a ProcDevParsingError whose message holds that line, trimmed of its
\* trailing whitespace.
C4_TokenCountFails ==
    (IsRow(raw) /\ Len(RawTokens) # 2 /\ before \in {"CHARACTER", "BLOCK"})
        => (pc = "raised" /\ error = FormatError(rstrip(raw)))

\* a three-token line in a section
C4_Witness ==
    /\ IsRow(raw) /\ Len(RawTokens) = 3
    /\ before \in {"CHARACTER", "BLOCK"}
    /\ pc = "raised"

\* C8: construction is atomic. Once a line has failed, control has left
\* __init__ with the exception and no later line is processed; an instance
\* exists only if no line failed; a query is only ever made on an instance.
C8_ConstructionAtomic ==
    /\ failed => (pc = "raised" /\ error # NoError /\ last_call = NoCall)
    /\ pc = "constructed" => (~failed /\ error = NoError)
    /\ last_call # NoCall => pc = "constructed"

\* a line failed after earlier rows had been stored in a forward table
C8_Witness ==
    /\ failed
    /\ pc = "raised"
    /\ \E t \in TableKeys : DOMAIN tables[t].left # {}

(***************************************************************************)
(* Properties of the queries.                                              *)
(***************************************************************************)
\* the majors that the forward table of device type t maps to driver d
MajorsOf(t, d) == { m \in DOMAIN tables[t].left : tables[t].left[m] = d }

\* the driver names in the forward table of device type t
DriversOf(t) == { tables[t].left[m] : m \in DOMAIN tables[t].left }

\* C1: on a constructed instance, get_driver(t, m) with t CHARACTER or
\* BLOCK returns the driver name of the last data row with major m that
\* was processed in section t, and None when there was no such row.
C1_GetDriverReturnsLastRow ==
    (last_call.op = "get_driver" /\ last_call.device_type \in {"CHARACTER", "BLOCK"})
        => LET key == <<last_call.device_type, last_call.major_number>>
           IN  result = IF key \in DOMAIN last_row
                        THEN ReturnStr(last_row[key]) ELSE ReturnNone

\* C2: get_majors(t, d) with t CHARACTER or BLOCK returns the set of the
\* majors that the forward table of t maps to d, and None when no major
\* is mapped to d.
C2_GetMajorsReturnsGroup ==
    (last_call.op = "get_majors" /\ last_call.device_type \in {"CHARACTER", "BLOCK"})
        => LET group == MajorsOf(last_call.device_type, last_call.driver)
           IN  result = IF group = {} THEN ReturnNone ELSE ReturnSet(group)

\* C5: a query call with a device type other than CHARACTER and BLOCK
\* raises ProcDevValueError and changes no forward table and no reverse
\* table.
C5_BadDeviceTypeRejected ==
    [][(pc = "constructed" /\ last_call'.device_type \notin {"CHARACTER", "BLOCK"})
          => (result' = Raise("ProcDevValueError")
              /\ tables' = tables /\ builds' = builds)]_vars

\* C6: with device type CHARACTER or BLOCK, get_driver of a major that is
\* not registered and get_majors of a driver name that is not registered
\* return None; ProcDevValueError is raised only for another device type.
C6_AbsentIsNotAnError ==
    LET t == last_call.device_type
    IN  /\ (last_call.op = "get_driver" /\ t \in {"CHARACTER", "BLOCK"}
              /\ last_call.major_number \notin DOMAIN tables[t].left)
              => result = ReturnNone
        /\ (last_call.op = "get_majors" /\ t \in {"CHARACTER", "BLOCK"}
              /\ MajorsOf(t, last_call.driver) = {})
              => result = ReturnNone
        /\ result.exc = "ProcDevValueError" => t \notin {"CHARACTER", "BLOCK"}

\* C7: once get_majors has been called for a device type, its reverse
\* table has been built exactly once, by the first such call, and is
\* stored for the later calls to reuse; it is never built a second time.
C7_BuiltOnceAndMemoized ==
    \A t \in TableKeys :
        /\ builds[t] <= 1
        /\ (last_call.op = "get_majors" /\ last_call.device_type = t)
              => (builds[t] = 1 /\ ~tables[t].right.isNone)

\* C9: on a constructed instance, for each device type, get_majors returns
\* a set for every driver name in the forward table; these sets are
\* pairwise disjoint and their union is the set of the table's majors.
C9_GroupsPartitionMajors ==
    pc = "constructed" =>
        \A t \in TableKeys :
            LET answer(d) == get_majors("method", <<t, d>>).result
            IN  /\ \A d \in DriversOf(t) : answer(d).vtype = "frozenset"
                /\ UNION { answer(d).vset : d \in DriversOf(t) }
                      = DOMAIN tables[t].left
                /\ \A d1, d2 \in DriversOf(t) :
                      d1 # d2 => answer(d1).vset \cap answer(d2).vset = {}

\* C10: two get_majors calls with the same device type, CHARACTER or
\* BLOCK, and the same driver name both return a result, and the two
\* results are equal.
C10_SameCallSameResult ==
    (remembered.set /\ last_call = remembered.call
        /\ last_call.device_type \in {"CHARACTER", "BLOCK"})
        => (remembered.result.kind = "return" /\ result = remembered.result)

\* C11: the reverse table of each device type is unbuilt (None) when
\* __init__ returns, is built once the first get_majors call for that
\* type has been made, and once built is never unbuilt again.
C11_UnbuiltThenBuilt ==
    [][\A t \in TableKeys :
          /\ (pc = "parsing" /\ pc' = "constructed") => tables'[t].right.isNone
          /\ (pc = "constructed" /\ last_call'.op = "get_majors"
                /\ last_call'.device_type = t) => ~tables'[t].right.isNone
          /\ ~tables[t].right.isNone => ~tables'[t].right.isNone]_vars

\* C12: no query call, whether it returns or raises, adds, removes or
\* changes an entry of the forward table of either device type.
C12_ForwardTablesReadOnly ==
    [][pc = "constructed" =>
          \A t \in TableKeys : tables'[t].left = tables[t].left]_vars

\* a get_majors call has been made for a device type with a non-empty
\* forward table, which is still in place
C12_Witness ==
    /\ last_call.op = "get_majors"
    /\ last_call.device_type \in TableKeys
    /\ DOMAIN tables[last_call.device_type].left # {}
    /\ \A k \in DOMAIN last_row : tables[k[1]].left[k[2]] = last_row[k]

\* C19: get_driver changes the reverse table and the build count of no
\* device type; get_majors for one device type changes neither of them
\* for the other device type; no query changes a forward table.
C19_BuildIsLocal ==
    [][pc = "constructed" =>
          \A t \in TableKeys :
              /\ tables'[t].left = tables[t].left
              /\ (last_call'.op = "get_driver" \/ last_call'.device_type # t)
                    => (tables'[t].right = tables[t].right
                        /\ builds'[t] = builds[t])]_vars

\* get_majors was called for CHARACTER on an instance with rows in both
\* forward tables, and BLOCK's reverse table is as __init__ left it
C19_Witness ==
    /\ last_call.op = "get_majors"
    /\ last_call.device_type = "CHARACTER"
    /\ DOMAIN tables["CHARACTER"].left # {}
    /\ DOMAIN tables["BLOCK"].left # {}
    /\ tables["BLOCK"].right = NoneRight
    /\ builds["BLOCK"] = 0

(***************************************************************************)
(* Further properties of the parse.                                        *)
(***************************************************************************)
\* C13: every key of both forward tables is a non-negative integer.
C13_KeysNonNegative ==
    \A t \in TableKeys : \A m \in DOMAIN tables[t].left : m >= 0

\* C14: the current section starts as NOTYPE; after a blank line (blank
\* once trimmed) it is NOTYPE, after a header it is that header's section,
\* after a data row it is what it was; a header is accepted in any
\* section, and every row stored so far stays in its section's table.
C14_SectionFollowsLastMarker ==
    /\ (\A i \in 1..Len(raw) : raw[i] \in Whitespace) => parsing = "NOTYPE"
    /\ rstrip(raw) = CharacterHeader => (parsing = "CHARACTER" /\ ~failed)
    /\ rstrip(raw) = BlockHeader => (parsing = "BLOCK" /\ ~failed)
    /\ IsRow(raw) => parsing = before
    /\ \A k \in DOMAIN last_row :
          k[1] \in TableKeys /\ DictHas(tables[k[1]].left, k[2])
          /\ tables[k[1]].left[k[2]] = last_row[k]

\* the CHARACTER header seen again, straight after BLOCK rows, with
\* CHARACTER rows already stored
C14_Witness ==
    /\ raw = CharacterHeader
    /\ before = "BLOCK"
    /\ parsing = "CHARACTER"
    /\ DOMAIN tables["CHARACTER"].left # {}
    /\ DOMAIN tables["BLOCK"].left # {}
    /\ pc = "parsing"

\* the token holds a character that is neither a digit nor a sign
NotANumber(tok) == \E i \in 1..Len(tok) : ~IsDigit(tok[i]) /\ tok[i] \notin {"+", "-"}

C16_CheckOrder ==
    /\ (IsRow(raw) /\ Len(RawTokens) # 2 /\ before = "NOTYPE")
          => (pc = "raised" /\ error = FormatError(rstrip(raw)))
    /\ (IsRow(raw) /\ Len(RawTokens) = 2 /\ before = "NOTYPE"
          /\ NotANumber(RawTokens[1]))
          => (pc = "raised" /\ error = UnknownTypeError("NOTYPE"))

\* the row "x a" outside any section
C16_Witness ==
    /\ raw = <<"x", " ", "a">>
    /\ before = "NOTYPE"
    /\ pc = "raised"
    /\ error = UnknownTypeError("NOTYPE")

\* the entry of major m in dict d is not the same before and after
EntryChanged(old, new, m) ==
    \/ DictHas(old, m) # DictHas(new, m)
    \/ (DictHas(old, m) /\ DictHas(new, m) /\ old[m] # new[m])

\* C17: processing a line changes at most one forward-table entry: that
\* of the row's major in the table of the current section, and only when
\* the line is a data row that raised nothing, whose driver it then holds.
C17_RowChangesOneEntry ==
    [][(pc = "parsing" /\ pc' # "constructed") =>
          LET tokens == split(rstrip(raw'))
          IN  /\ \A t \in TableKeys :
                   \A m \in DOMAIN tables[t].left \cup DOMAIN tables'[t].left :
                      EntryChanged(tables[t].left, tables'[t].left, m)
                         => (IsRow(raw') /\ error' = NoError /\ t = parsing
                             /\ m = int(tokens[1]).value)
              /\ (IsRow(raw') /\ error' = NoError)
                    => (DictHas(tables'[parsing].left, int(tokens[1]).value)
                        /\ tables'[parsing].left[int(tokens[1]).value]
                              = tokens[2])]_vars

\* major 1 is in both tables, under different drivers, and a row was the
\* last line processed
C17_Witness ==
    /\ IsRow(raw) /\ pc = "parsing"
    /\ DictHas(tables["CHARACTER"].left, 1)
    /\ DictHas(tables["BLOCK"].left, 1)
    /\ tables["CHARACTER"].left[1] # tables["BLOCK"].left[1]
    /\ Cardinality(DOMAIN tables[before].left) >= 2

\* the line holds nothing but whitespace
AllSpace(l) == \A i \in 1..Len(l) : l[i] \in Whitespace

\* the line is the header H followed by nothing but whitespace
HeaderThenSpace(l, H) ==
    /\ Len(l) >= Len(H)
    /\ SubSeq(l, 1, Len(H)) = H
    /\ \A i \in Len(H) + 1..Len(l) : l[i] \in Whitespace

\* the line in raw went the way of a data row: the section is what it
\* was, and the line either raised or put its row into the section's table
ProcessedAsRow ==
    /\ parsing = before
    /\ \/ pc = "raised"
       \/ /\ pc = "parsing"
          /\ Len(split(raw)) = 2
          /\ int(split(raw)[1]).ok
          /\ DictHas(last_row, <<before, int(split(raw)[1]).value>>)
          /\ last_row[<<before, int(split(raw)[1]).value>>] = split(raw)[2]

\* C18, as claimed: a line that is not blank and is not exactly one of the
\* two header literals, trailing whitespace included in the comparison,
\* does not switch the section and is processed as a data row.
C18_ExactHeaderOnly ==
    (~AllSpace(raw) /\ raw \notin {CharacterHeader, BlockHeader})
        => ProcessedAsRow

\* C18, as amended: a line is a header when it is one of the two header
\* literals followed by nothing but whitespace, and then it switches the
\* section and raises nothing; any other line that is not blank (one that
\* differs from a header by letter case, by being a prefix or an extension
\* of it, or by leading whitespace) does not switch the section and is
\* processed as a data row.
C18_HeaderUpToTrailingSpace ==
    /\ HeaderThenSpace(raw, CharacterHeader)
          => (pc = "parsing" /\ parsing = "CHARACTER" /\ error = NoError)
    /\ HeaderThenSpace(raw, BlockHeader)
          => (pc = "parsing" /\ parsing = "BLOCK" /\ error = NoError)
    /\ (~AllSpace(raw) /\ ~HeaderThenSpace(raw, CharacterHeader)
          /\ ~HeaderThenSpace(raw, BlockHeader))
          => ProcessedAsRow

\* the BLOCK header with leading whitespace, read in section CHARACTER,
\* was taken as a row and failed
C18_Witness ==
    /\ raw = <<" ">> \o BlockHeader
    /\ before = "CHARACTER"
    /\ parsing = "CHARACTER"
    /\ pc = "raised"

(***************************************************************************)
(* Properties of get_majors called from two threads.                       *)
(***************************************************************************)
\* C20: when the get_majors calls of two threads interleave, each call
\* returns a result, and it is the result that the same call returns when
\* it runs on its own.
C20_InterleavedAsSequential ==
    \A i \in ThreadIds :
        threads[i].at = "done" =>
            /\ threads[i].result.kind = "return"
            /\ threads[i].result =
                  get_majors(threads[i].style,
                             <<threads[i].device_type, threads[i].driver>>).result

====
